---------------------------- MODULE Spec2Model ----------------------------
(***************************************************************************)
(* The schedule handlers of backend/src/fcm/handler.rs (FirebaseMessaging) *)
(* over the fcm_schedule table, as a state machine.  Every handler is cut  *)
(* at the points where its result depends on shared state read at a        *)
(* different moment: each SQL statement is one atomic step on the table,   *)
(* and each reading of the clock (decode_cron's own, and Utc::now()) is a  *)
(* step of its own, so that other requests and the clock may move between  *)
(* (create_schedule reads Utc::now() as it issues its INSERT: one step).   *)
(* The store is taken to execute every statement (no I/O failure); the     *)
(* only Err a fetch_one produces is "no such row".                         *)
(***************************************************************************)
EXTENDS Integers, Sequences, FiniteSets, TLC

\* ------------------------------------------------------------- bounds
MaxId    == 1      \* rows ever inserted
MaxTime  == 1      \* the clock runs 0..MaxTime
MaxReqs  == 3      \* requests that get past their first step and suspend

\* The request slots: two handlers may be in flight together.
Procs == {1, 2}

\* ------------------------------------------------------------- config
\* FirebaseMessaging.projects: the allow-list given to new().
projects == {"P1", "P2"}

\* ------------------------------------------------------------- inputs
\* Users are "A" and "B"; audiences are "P1", "P2" and "PX", the last of which
\* is not in projects.

\* The firebase-auth header: absent, present but not a verifiable token, or a
\* token that verifies and asserts (user_id, aud).
NoHeader  == [present |-> FALSE, valid |-> FALSE, user_id |-> "", aud |-> ""]
BadHeader == [present |-> TRUE, valid |-> FALSE, user_id |-> "A", aud |-> "P1"]
Token(u, a) == [present |-> TRUE, valid |-> TRUE, user_id |-> u, aud |-> a]
\* The tokens of callers whose requests are tried with every body, and the
\* other headers, tried with one valid body.
Tokens  == {Token("A", "P1"), Token("A", "P2"), Token("B", "P1")}
Headers == Tokens \cup {NoHeader, BadHeader, Token("B", "PX")}

\* serde_json::Value, by its variant.
JObject(keys) == [tag |-> "Object", keys |-> keys]
JOther(tag)   == [tag |-> tag, keys |-> {}]

\* A cron pattern is a sequence of fields <<day, month>>; 0 is the wildcard.
\* The calendar has YearLen instants a year: month 1 has days 1 and 2, month 2
\* has day 1 only.
YearLen  == 3
MaxField == 2
EveryDay     == <<0, 0>>
FirstOfTwo   == <<1, 2>>
EmptyPattern == <<>>
OutOfRange   == <<3, 0>>
Unsatisfiable == <<2, 2>>     \* day 2 of month 2 never comes

\* A request body (Json<FCMSchedule> / Json<UpdateSchedule>).  fb_user_id and
\* fb_project_id are the owner fields a client may put in the body of a create.
Body(n, t, c, v, u, a) ==
  [name |-> n, push_token |-> t, cron_pattern |-> c, payload |-> v,
   fb_user_id |-> u, fb_project_id |-> a]
Body1 == Body("n1", "t1", EveryDay, JObject({"k"}), "B", "P2")
Body2 == Body("n2", "t2", FirstOfTwo, JObject({}), "A", "P1")
ValidBodies == {Body1, Body2}
BadPayloadBodies ==
  {Body("n1", "t1", EveryDay, v, "B", "P2") :
     v \in {JOther("Array"), JOther("Null"), JOther("String"), JOther("Number")}}
BadPatternBodies ==
  {Body("n1", "t1", c, JObject({"k"}), "B", "P2") :
     c \in {EmptyPattern, OutOfRange, Unsatisfiable}}
Bodies == ValidBodies \cup BadPayloadBodies \cup BadPatternBodies
NoBody == Body("", "", <<>>, JOther("Null"), "", "")

Ids == 1..(MaxId + 1)        \* MaxId + 1 is an id that never exists

\* The requests tried: <<header, body>>.
RequestBodies == (Tokens \X Bodies) \cup ((Headers \ Tokens) \X {Body1})


\* --------------------------------------------------- super::utils (not in src)
Err == [ok |-> FALSE, next |-> 0]
Ok(t) == [ok |-> TRUE, next |-> t]

DayOf(t)   == IF t % YearLen = 1 THEN 2 ELSE 1
MonthOf(t) == IF t % YearLen = 2 THEN 2 ELSE 1

Matches(c, t) ==
  /\ c[1] = 0 \/ c[1] = DayOf(t)
  /\ c[2] = 0 \/ c[2] = MonthOf(t)

WellFormed(c) == Len(c) = 2 /\ \A i \in 1..2 : c[i] \in 0..MaxField

\* The instants after `now` (never `now` itself) that the pattern matches,
\* looked for over one whole year.
Upcoming(c, now) == {t \in (now + 1)..(now + YearLen) : Matches(c, t)}

Earliest(S) == CHOOSE t \in S : \A u \in S : t <= u

\* decode_cron(pattern): the next instant after the decoder's own reading of
\* the clock, `now`; Err for a pattern that does not parse or never comes.
decode_cron(c, now) ==
  IF ~WellFormed(c) THEN Err
  ELSE IF Upcoming(c, now) = {} THEN Err
  ELSE Ok(Earliest(Upcoming(c, now)))

\* extract_claims(header): the claims of a token that verifies.  It is given
\* the header alone; the allow-list is the handler's to check.
NoClaims == [ok |-> FALSE, user_id |-> "", aud |-> ""]
extract_claims(h) ==
  IF h.present /\ h.valid
  THEN [ok |-> TRUE, user_id |-> h.user_id, aud |-> h.aud]
  ELSE NoClaims

\* -------------------------------------------------------------- state
VARIABLES
  fcm_schedule,   \* the table: a set of rows with distinct ids
  lastRowid,      \* the greatest id ever given out
  clock,          \* Utc::now()
  req,            \* req[p]: the handler running (or last finished) in slot p
  answered,       \* the reply of the latest step, when that step was a
                  \* request answered before it suspended; else NoReply
  nreq            \* requests that have suspended so far

vars == <<fcm_schedule, lastRowid, clock, req, answered, nreq>>

Idle ==
  [op |-> "idle", pc |-> "idle", header |-> NoHeader, fb_user_id |-> "", fb_project_id |-> "",
   id |-> 0, body |-> NoBody, next_execution |-> 0, current_time |-> 0,
   schedule |-> {}, kind |-> "none", data |-> {}]

NoReply ==
  [op |-> "none", header |-> NoHeader, id |-> 0, body |-> NoBody,
   kind |-> "none", data |-> {}]

Init ==
  /\ fcm_schedule = {}
  /\ lastRowid = 0
  /\ clock = 0
  /\ req = [p \in Procs |-> Idle]
  /\ answered = NoReply
  /\ nreq = 0

\* ---------------------------------------------------------------- SQL
\* SELECT * FROM fcm_schedule WHERE id = ?
SelectById(t, id) == {r \in t : r.id = id}
\* SELECT * FROM fcm_schedule WHERE fb_user_id = ?
SelectByUser(t, uid) == {r \in t : r.fb_user_id = uid}
\* (mutant) the owner is left out of the WHERE clause.
SelectByIdAnyUser(t, id, uid) == {r \in t : r.id = id}
\* ... WHERE id = ? AND fb_user_id = ?
SelectByIdAndUser(t, id, uid) == {r \in t : r.id = id /\ r.fb_user_id = uid}

\* (mutant) the owner columns are bound from the request body.
InsertedRowFromBody(id, b, uid, aud, current_time, next_execution) ==
  [id |-> id, name |-> b.name, fb_user_id |-> b.fb_user_id,
   push_token |-> b.push_token, fb_project_id |-> b.fb_project_id,
   cron_pattern |-> b.cron_pattern, payload |-> b.payload,
   last_execution |-> current_time, next_execution |-> next_execution,
   created_at |-> current_time, updated_at |-> current_time]

\* INSERT INTO fcm_schedule (...) VALUES (...): the row create_schedule binds.
InsertedRow(id, b, uid, aud, current_time, next_execution) ==
  [id |-> id, name |-> b.name, fb_user_id |-> uid, push_token |-> b.push_token,
   fb_project_id |-> aud, cron_pattern |-> b.cron_pattern,
   payload |-> b.payload, last_execution |-> current_time,
   next_execution |-> next_execution, created_at |-> current_time,
   updated_at |-> current_time]

\* (mutant) push_token is missing from the SET list.
UpdatedRowPartial(r, b, next_execution, current_time) ==
  [r EXCEPT !.name = b.name, !.cron_pattern = b.cron_pattern,
            !.payload = b.payload, !.next_execution = next_execution,
            !.updated_at = current_time]

\* UPDATE fcm_schedule SET name = ?, push_token = ?, cron_pattern = ?,
\* payload = ?, next_execution = ?, updated_at = ?: the row after the SET.
UpdatedRow(r, b, next_execution, current_time) ==
  [r EXCEPT !.name = b.name, !.push_token = b.push_token,
            !.cron_pattern = b.cron_pattern, !.payload = b.payload,
            !.next_execution = next_execution, !.updated_at = current_time]

\* (mutant) an upsert: a row that is gone is written anew.
UpdateOrInsert(t, id, uid, b, next_execution, current_time) ==
  IF SelectById(t, id) = {}
  THEN t \cup {[id |-> id, name |-> b.name, fb_user_id |-> uid,
                push_token |-> b.push_token, fb_project_id |-> "",
                cron_pattern |-> b.cron_pattern, payload |-> b.payload,
                last_execution |-> current_time,
                next_execution |-> next_execution,
                created_at |-> current_time, updated_at |-> current_time]}
  ELSE {IF r.id = id /\ r.fb_user_id = uid
        THEN [r EXCEPT !.name = b.name, !.push_token = b.push_token,
                       !.cron_pattern = b.cron_pattern, !.payload = b.payload,
                       !.next_execution = next_execution,
                       !.updated_at = current_time]
        ELSE r : r \in t}

\* The table after UPDATE ... WHERE id = ? AND fb_user_id = ?
UpdateWhere(t, id, uid, b, next_execution, current_time) ==
  {IF r \in SelectByIdAndUser(t, id, uid)
   THEN UpdatedRow(r, b, next_execution, current_time) ELSE r : r \in t}

\* The table after DELETE FROM fcm_schedule WHERE id = ? AND fb_user_id = ?
DeleteWhere(t, id, uid) == t \ SelectByIdAndUser(t, id, uid)

\* ----------------------------------------------------------- plumbing
\* A new request is taken by the first slot that runs no handler (the slots
\* are alike, so which one takes it is of no consequence), once the reply of
\* the request before it has gone out.
Free(p) ==
  /\ answered = NoReply
  /\ req[p].pc \in {"idle", "done"}
  /\ \A q \in Procs : q < p => req[q].pc \notin {"idle", "done"}

\* A request answered in its first step: nothing of it stays in a slot.
Reply(op, h, id, b, kind, data) ==
  /\ answered' = [op |-> op, header |-> h, id |-> id, body |-> b,
                  kind |-> kind, data |-> data]
  /\ UNCHANGED <<req, nreq>>

\* A request that suspends at an await, in slot p.
Suspend(p, r) ==
  /\ nreq < MaxReqs
  /\ nreq' = nreq + 1
  /\ req' = [req EXCEPT ![p] = r]
  /\ answered' = NoReply

\* A later step of the handler in slot p.
Step(p, r) ==
  /\ answered = NoReply
  /\ req' = [req EXCEPT ![p] = r]
  /\ answered' = NoReply
  /\ UNCHANGED nreq

Finish(p, kind, data) ==
  Step(p, [req[p] EXCEPT !.pc = "done", !.kind = kind, !.data = data])

CreatesInFlight ==
  Cardinality({q \in Procs : req[q].op = "create" /\ req[q].pc = "insert"})

\* ------------------------------------------------------ create_schedule
Refused == [ok |-> FALSE, next_execution |-> 0]
Accepted(t) == [ok |-> TRUE, next_execution |-> t]

\* (mutant) the payload is not looked at.
CreateValidateAnyPayload(b, now) ==
  LET next == decode_cron(b.cron_pattern, now)
  IN IF ~next.ok THEN Refused ELSE Accepted(next.next)

\* (mutant) the pattern is stored without being decoded first.
CreateValidateAnyPattern(b, now) ==
  IF b.payload.tag # "Object" THEN Refused ELSE Accepted(now + 1)

\* Lines 53-66: the payload must be a Value::Object and the pattern must
\* decode; what comes back is next_execution.
CreateValidate(b, now) ==
  IF b.payload.tag # "Object" THEN Refused
  ELSE LET next == decode_cron(b.cron_pattern, now)
       IN IF ~next.ok THEN Refused ELSE Accepted(next.next)

\* Lines 39-66: the claims, the allow-list, the payload, the pattern.  Nothing
\* is awaited before the INSERT, so a request refused here is answered at once.
CreateBegin(p, h, b) ==
  /\ Free(p)
  /\ LET data == extract_claims(h)
         checked == CreateValidate(b, clock)
     IN IF ~data.ok THEN Reply("create", h, 0, b, "unauthorized", {})
        ELSE IF data.aud \notin projects
          THEN Reply("create", h, 0, b, "unauthorized", {})
        ELSE IF ~checked.ok THEN Reply("create", h, 0, b, "bad_request", {})
        ELSE /\ lastRowid + CreatesInFlight < MaxId
             /\ Suspend(p, [Idle EXCEPT !.op = "create", !.pc = "insert",
                                        !.header = h,
                                        !.fb_user_id = data.user_id,
                                        !.fb_project_id = data.aud,
                                        !.body = b,
                                        !.next_execution = checked.next_execution])
  /\ UNCHANGED <<fcm_schedule, lastRowid, clock>>

\* Lines 68-92: current_time = Utc::now(), the INSERT, last_insert_rowid().
CreateInsert(p) ==
  /\ req[p].op = "create" /\ req[p].pc = "insert"
  /\ lastRowid' = lastRowid + 1
  /\ fcm_schedule' = fcm_schedule \cup
       {InsertedRow(lastRowid + 1, req[p].body, req[p].fb_user_id,
                    req[p].fb_project_id, clock, req[p].next_execution)}
  /\ Step(p, [req[p] EXCEPT !.pc = "readback", !.id = lastRowid + 1,
                            !.current_time = clock])
  /\ UNCHANGED clock

\* Lines 94-109: SELECT the row back by its id and answer.
CreateReadBack(p) ==
  /\ req[p].op = "create" /\ req[p].pc = "readback"
  /\ LET schedule == SelectById(fcm_schedule, req[p].id)
     IN IF schedule = {} THEN Finish(p, "internal_server_error", {})
        ELSE Finish(p, "created", schedule)
  /\ UNCHANGED <<fcm_schedule, lastRowid, clock>>

\* --------------------------------------------------- find_all_schedules
\* Lines 120-144.
FindAll(p, h) ==
  /\ Free(p)
  /\ LET data == extract_claims(h)
     IN IF ~data.ok THEN Reply("list", h, 0, NoBody, "unauthorized", {})
        ELSE Reply("list", h, 0, NoBody, "ok",
                   SelectByUser(fcm_schedule, data.user_id))
  /\ UNCHANGED <<fcm_schedule, lastRowid, clock>>

\* ------------------------------------------------------ delete_schedule
\* Lines 160-183: the claims and the lookup.
DeleteBegin(p, h, id) ==
  /\ Free(p)
  /\ LET data == extract_claims(h)
         schedule == SelectByIdAndUser(fcm_schedule, id, data.user_id)
     IN IF ~data.ok THEN Reply("delete", h, id, NoBody, "unauthorized", {})
        ELSE IF schedule = {}
          THEN Reply("delete", h, id, NoBody, "not_found", {})
        ELSE Suspend(p, [Idle EXCEPT !.op = "delete", !.pc = "exec",
                                     !.header = h,
                                     !.fb_user_id = data.user_id,
                                     !.fb_project_id = data.aud,
                                     !.id = id, !.schedule = schedule])
  /\ UNCHANGED <<fcm_schedule, lastRowid, clock>>

\* (mutant) rows_affected is not looked at.
DeleteExecUnchecked(p) ==
  /\ req[p].op = "delete" /\ req[p].pc = "exec"
  /\ fcm_schedule' = DeleteWhere(fcm_schedule, req[p].id, req[p].fb_user_id)
  /\ Finish(p, "ok", req[p].schedule)
  /\ UNCHANGED <<lastRowid, clock>>

\* Lines 185-204: the DELETE, its rows_affected, and the answer.
DeleteExec(p) ==
  /\ req[p].op = "delete" /\ req[p].pc = "exec"
  /\ LET rows_affected ==
           Cardinality(SelectByIdAndUser(fcm_schedule, req[p].id, req[p].fb_user_id))
     IN /\ fcm_schedule' = DeleteWhere(fcm_schedule, req[p].id, req[p].fb_user_id)
        /\ IF rows_affected = 0 THEN Finish(p, "not_found", {})
           ELSE Finish(p, "ok", req[p].schedule)
  /\ UNCHANGED <<lastRowid, clock>>

\* ------------------------------------------------------ update_schedule
\* (mutant) a pattern that does not decode falls back to the current time.
UpdateValidateFallback(b, now) ==
  IF b.payload.tag # "Object" THEN Refused
  ELSE LET next == decode_cron(b.cron_pattern, now)
       IN IF ~next.ok THEN Accepted(now) ELSE Accepted(next.next)

\* Lines 242-254: the payload and the pattern, as in create_schedule.
UpdateValidate(b, now) ==
  IF b.payload.tag # "Object" THEN Refused
  ELSE LET next == decode_cron(b.cron_pattern, now)
       IN IF ~next.ok THEN Refused ELSE Accepted(next.next)

\* Lines 217-254: the claims, the lookup, the payload, the pattern.
UpdateBegin(p, h, id, b) ==
  /\ Free(p)
  /\ LET data == extract_claims(h)
         schedule == SelectByIdAndUser(fcm_schedule, id, data.user_id)
         checked == UpdateValidate(b, clock)
     IN IF ~data.ok THEN Reply("update", h, id, b, "unauthorized", {})
        ELSE IF schedule = {} THEN Reply("update", h, id, b, "not_found", {})
        ELSE IF ~checked.ok THEN Reply("update", h, id, b, "bad_request", {})
        ELSE Suspend(p, [Idle EXCEPT !.op = "update", !.pc = "now",
                                     !.header = h,
                                     !.fb_user_id = data.user_id,
                                     !.fb_project_id = data.aud,
                                     !.id = id, !.body = b,
                                     !.next_execution = checked.next_execution])
  /\ UNCHANGED <<fcm_schedule, lastRowid, clock>>

\* Line 256: current_time = Utc::now().
UpdateNow(p) ==
  /\ req[p].op = "update" /\ req[p].pc = "now"
  /\ Step(p, [req[p] EXCEPT !.pc = "exec", !.current_time = clock])
  /\ UNCHANGED <<fcm_schedule, lastRowid, clock>>

\* Lines 258-281: the UPDATE and its rows_affected.
UpdateExec(p) ==
  /\ req[p].op = "update" /\ req[p].pc = "exec"
  /\ LET rows_affected ==
           Cardinality(SelectByIdAndUser(fcm_schedule, req[p].id, req[p].fb_user_id))
     IN /\ fcm_schedule' = UpdateWhere(fcm_schedule, req[p].id, req[p].fb_user_id,
                                       req[p].body, req[p].next_execution,
                                       req[p].current_time)
        /\ IF rows_affected = 0 THEN Finish(p, "not_found", {})
           ELSE Step(p, [req[p] EXCEPT !.pc = "readback"])
  /\ UNCHANGED <<lastRowid, clock>>

\* (mutant) a row that is gone at the re-read is reported as not found.
UpdateReadBackNotFound(p) ==
  /\ req[p].op = "update" /\ req[p].pc = "readback"
  /\ LET schedule == SelectByIdAndUser(fcm_schedule, req[p].id, req[p].fb_user_id)
     IN IF schedule = {} THEN Finish(p, "not_found", {})
        ELSE Finish(p, "ok", schedule)
  /\ UNCHANGED <<fcm_schedule, lastRowid, clock>>

\* Lines 283-299: SELECT the row again and answer.
UpdateReadBack(p) ==
  /\ req[p].op = "update" /\ req[p].pc = "readback"
  /\ LET schedule == SelectByIdAndUser(fcm_schedule, req[p].id, req[p].fb_user_id)
     IN IF schedule = {} THEN Finish(p, "internal_server_error", {})
        ELSE Finish(p, "ok", schedule)
  /\ UNCHANGED <<fcm_schedule, lastRowid, clock>>

\* ---------------------------------------------------------------- time
Tick ==
  /\ answered = NoReply
  /\ clock < MaxTime
  /\ clock' = clock + 1
  /\ answered' = NoReply
  /\ UNCHANGED <<fcm_schedule, lastRowid, req, nreq>>

\* The reply of a request answered in its first step goes out; nothing else
\* moves before it has (such a request has changed nothing, so no
\* interleaving of the handlers is lost).
Respond ==
  /\ answered # NoReply
  /\ answered' = NoReply
  /\ UNCHANGED <<fcm_schedule, lastRowid, clock, req, nreq>>

\* The slots that may move: none while a reply is on its way out.
Ready == IF answered = NoReply THEN Procs ELSE {}

Next ==
  \/ \E p \in Ready, hb \in RequestBodies : CreateBegin(p, hb[1], hb[2])
  \/ \E p \in Ready : CreateInsert(p)
  \/ \E p \in Ready : CreateReadBack(p)
  \/ \E p \in Ready, h \in Headers : FindAll(p, h)
  \/ \E p \in Ready, h \in Headers, id \in Ids : DeleteBegin(p, h, id)
  \/ \E p \in Ready : DeleteExec(p)
  \/ \E p \in Ready, hb \in RequestBodies, id \in Ids :
        UpdateBegin(p, hb[1], id, hb[2])
  \/ \E p \in Ready : UpdateNow(p)
  \/ \E p \in Ready : UpdateExec(p)
  \/ \E p \in Ready : UpdateReadBack(p)
  \/ Tick
  \/ Respond

Spec == Init /\ [][Next]_vars

\* =============================================================== claims
\* What the steps of a transition tell about the request that made it.
Caller(h) == extract_claims(h)

\* Slot p takes up a request in this step.
Suspends(p) == req[p].pc \in {"idle", "done"} /\ req'[p].pc \notin {"idle", "done"}

\* The row with this id exists and belongs to another user than the caller's.
OwnedByOther(id, h) ==
  /\ Caller(h).ok
  /\ \E r \in fcm_schedule : r.id = id /\ r.fb_user_id # Caller(h).user_id

\* What C1 asks of every step.
C1_Step ==
  /\ (/\ answered'.op \in {"update", "delete"}
      /\ \/ OwnedByOther(answered'.id, answered'.header)
         \/ Caller(answered'.header).ok /\ SelectById(fcm_schedule, answered'.id) = {})
     => /\ answered'.kind = "not_found"
        /\ answered'.data = {}
        /\ fcm_schedule' = fcm_schedule
  /\ \A p \in Procs :
       Suspends(p) /\ req'[p].op \in {"update", "delete"}
       => ~OwnedByOther(req'[p].id, req'[p].header)
\* C1: an update or delete by an authenticated user on a row that belongs to
\* a different user is answered not-found, as it is for an id that has no row,
\* whatever the body holds; it does not go on to a statement and the table
\* stays as it was.
C1_NonOwnerNotFound == [][C1_Step]_vars

C1_Witness ==
  /\ answered.op = "update"
  /\ answered.header = Token("B", "P1")
  /\ answered.body.payload.tag # "Object"
  /\ answered.kind = "not_found"
  /\ \E r \in fcm_schedule : r.id = answered.id /\ r.fb_user_id = "A"

\* C2: find_all_schedules with verified identity (u, a) returns exactly the
\* rows whose fb_user_id = u and fb_project_id = a.
C2_ListIsOwnersRows ==
  answered.op = "list" /\ answered.kind = "ok"
  => answered.data =
       {r \in fcm_schedule : /\ r.fb_user_id = Caller(answered.header).user_id
                             /\ r.fb_project_id = Caller(answered.header).aud}

\* What C3 asks of every step.
C3_Step ==
  \A p \in Procs :
    req[p].pc = "exec" /\ req'[p].pc # "exec"
    => \A r \in fcm_schedule :
         r \notin fcm_schedule'
         => /\ r.fb_user_id = Caller(req[p].header).user_id
            /\ r.fb_project_id = Caller(req[p].header).aud
\* C3: an UPDATE or DELETE statement changes or removes a row only when both
\* owner fields of the row equal the caller's (user, audience).
C3_OnlyOwnerPairWrites == [][C3_Step]_vars

\* C4: a request whose token verifies but whose audience is not in projects
\* is answered unauthorized with no data, by each of the four operations, and
\* never goes on to a statement.
C4_UnlistedAudienceUnauthorized ==
  /\ (/\ answered.op # "none"
      /\ Caller(answered.header).ok
      /\ Caller(answered.header).aud \notin projects)
     => answered.kind = "unauthorized" /\ answered.data = {}
  /\ \A p \in Procs :
       req[p].op # "idle" => Caller(req[p].header).aud \in projects

\* C5: of two deletes of the same id that both got past their lookup, under
\* every order of their steps, exactly one is answered ok with the row and the
\* other not-found, and the row is gone; a delete that arrives after the row
\* was deleted is answered not-found at its lookup.
C5_OneDeleteWins ==
  /\ \A p, q \in Procs :
       (/\ p # q
        /\ req[p].op = "delete" /\ req[p].pc = "done"
        /\ req[q].op = "delete" /\ req[q].pc = "done"
        /\ req[p].id = req[q].id)
       => /\ {req[p].kind, req[q].kind} = {"ok", "not_found"}
          /\ req[p].kind = "ok"
             => /\ Cardinality(req[p].data) = 1
                /\ \A r \in req[p].data :
                     r.id = req[p].id /\ r.fb_user_id = req[p].fb_user_id
          /\ req[p].kind = "not_found" => req[p].data = {}
          /\ SelectById(fcm_schedule, req[p].id) = {}
  /\ \A p \in Procs :
       (/\ req[p].op = "delete" /\ req[p].pc = "done" /\ req[p].kind = "ok"
        /\ answered.op = "delete" /\ answered.id = req[p].id
        /\ Caller(answered.header).ok)
       => answered.kind = "not_found"

C5_Witness ==
  /\ req[1].op = "delete" /\ req[1].pc = "done" /\ req[1].kind = "not_found"
  /\ req[2].op = "delete" /\ req[2].pc = "done" /\ req[2].kind = "ok"
  /\ req[1].id = req[2].id
  /\ req[1].header = req[2].header

\* What C6 asks of every step.
C6_Step ==
  /\ \A r \in fcm_schedule' :
       SelectById(fcm_schedule, r.id) = {}
       => \E p \in Procs :
            /\ req[p].op = "create" /\ req[p].pc = "insert"
            /\ req'[p].id = r.id
            /\ r.fb_user_id = Caller(req[p].header).user_id
            /\ r.fb_project_id = Caller(req[p].header).aud
            /\ r.created_at = r.last_execution
  /\ \A r \in fcm_schedule, r2 \in fcm_schedule' :
       r.id = r2.id
       => /\ r2.fb_user_id = r.fb_user_id
          /\ r2.fb_project_id = r.fb_project_id
          /\ r2.created_at = r.created_at
          /\ r2.last_execution = r.last_execution
\* C6: the row an INSERT adds has fb_user_id and fb_project_id equal to the
\* user id and audience of the creating request's verified token, whatever its
\* body says; and as long as a row is in the table its id, fb_user_id,
\* fb_project_id, created_at and last_execution stay as they were.
C6_OwnerFromTokenAndFixed == [][C6_Step]_vars

C6_Witness ==
  \E p, q \in Procs :
    /\ req[p].op = "create"
    /\ req[p].body.fb_user_id # Caller(req[p].header).user_id
    /\ req[p].body.fb_project_id # Caller(req[p].header).aud
    /\ req[q].op = "update" /\ req[q].pc = "done" /\ req[q].kind = "ok"
    /\ req[q].id = req[p].id
    /\ \E r \in fcm_schedule :
         /\ r.id = req[p].id
         /\ r.fb_user_id = Caller(req[p].header).user_id
         /\ r.name # req[p].body.name
         /\ r.updated_at > r.created_at

\* The request of reply a got as far as the payload check: its token verified
\* and, for a create, its audience is listed; for an update, the lookup found
\* the caller's row.
ReachesValidation(a) ==
  /\ Caller(a.header).ok
  /\ IF a.op = "create" THEN Caller(a.header).aud \in projects
     ELSE SelectByIdAndUser(fcm_schedule, a.id, Caller(a.header).user_id) # {}

BadPatterns == {EmptyPattern, OutOfRange, Unsatisfiable}

\* What C7 asks of every step.
C7_Step ==
  /\ \A r \in fcm_schedule' : r.payload.tag = "Object"
  /\ (/\ answered'.op \in {"create", "update"}
      /\ ReachesValidation(answered')
      /\ answered'.body.payload.tag # "Object")
     => /\ answered'.kind = "bad_request"
        /\ answered'.data = {}
        /\ fcm_schedule' = fcm_schedule
  /\ \A p \in Procs :
       Suspends(p) /\ req'[p].op \in {"create", "update"}
       => req'[p].body.payload.tag = "Object"
  /\ (/\ answered'.op \in {"create", "update"}
      /\ answered'.kind = "bad_request"
      /\ answered'.body.payload.tag = "Object")
     => answered'.body.cron_pattern \in BadPatterns
\* C7: every row's payload is a JSON object; a create or update whose payload
\* is an array, null, a string or a number is answered bad-request, writes
\* nothing and goes no further; an object payload (the empty one too) is not
\* refused for its payload.
C7_PayloadIsObject == [][C7_Step]_vars

C7_Witness ==
  /\ answered.op = "update"
  /\ answered.body.payload = JOther("Array")
  /\ answered.kind = "bad_request"
  /\ SelectByIdAndUser(fcm_schedule, answered.id,
                       Caller(answered.header).user_id) # {}
  /\ \E p \in Procs : req[p].op = "create" /\ req[p].body.payload = JObject({})

\* What C8 asks of every step.
C8_Step ==
  \A p \in Procs :
    (/\ req[p].op = "update" /\ req[p].pc = "exec" /\ req'[p].pc # "exec"
     /\ SelectById(fcm_schedule, req[p].id) = {})
    => /\ req'[p].pc = "done"
       /\ req'[p].kind = "not_found"
       /\ req'[p].data = {}
       /\ fcm_schedule' = fcm_schedule
\* C8: when the row is gone by the time update_schedule's UPDATE executes
\* (deleted after the lookup found it), the statement affects no row: the
\* update is answered not-found and the table is left as it was.
C8_UpdateAfterDeleteNotFound == [][C8_Step]_vars

C8_Witness ==
  \E p, q \in Procs :
    /\ req[p].op = "update" /\ req[p].pc = "done" /\ req[p].kind = "not_found"
    /\ req[q].op = "delete" /\ req[q].pc = "done" /\ req[q].kind = "ok"
    /\ req[p].id = req[q].id
    /\ fcm_schedule = {}

\* Row r holds what update u wrote, in all six columns of its SET list.
Wrote(r, u) ==
  /\ r.name = u.body.name
  /\ r.push_token = u.body.push_token
  /\ r.cron_pattern = u.body.cron_pattern
  /\ r.payload = u.body.payload
  /\ r.next_execution = u.next_execution
  /\ r.updated_at = u.current_time

\* Two updates of the same id have both finished and the row is still there.
C9_Done ==
  \A p, q \in Procs :
    (/\ p # q
     /\ req[p].op = "update" /\ req[p].pc = "done"
     /\ req[q].op = "update" /\ req[q].pc = "done"
     /\ req[p].id = req[q].id
     /\ SelectById(fcm_schedule, req[p].id) # {})
    => /\ req[p].kind = "ok" /\ req[q].kind = "ok"
       /\ \A r \in SelectById(fcm_schedule, req[p].id) :
            Wrote(r, req[p]) \/ Wrote(r, req[q])

\* What C9 asks of every step.
C9_Step ==
  /\ \A p \in Procs :
       (/\ req[p].op = "update" /\ req[p].pc = "exec" /\ req'[p].pc # "exec"
        /\ SelectById(fcm_schedule, req[p].id) # {})
       => /\ req'[p].pc = "readback"
          /\ SelectById(fcm_schedule', req[p].id) # {}
          /\ \A r \in SelectById(fcm_schedule', req[p].id) : Wrote(r, req[p])
  /\ C9_Done'
\* C9: two updates of the same id that are in flight together, with no delete
\* of the row, are both answered ok; each UPDATE that executes leaves the row
\* with all six values of that update, so the row ends with the values of the
\* one that executed last and never with some of each.
C9_LastUpdateWinsWhole == [][C9_Step]_vars

C9_Witness ==
  /\ req[1].op = "update" /\ req[1].pc = "done" /\ req[1].kind = "ok"
  /\ req[2].op = "update" /\ req[2].pc = "done" /\ req[2].kind = "ok"
  /\ req[1].id = req[2].id
  /\ req[1].body # req[2].body
  /\ \E r \in fcm_schedule : r.id = req[1].id /\ Wrote(r, req[1])

\* What C10 asks of every step.
C10_Step ==
  /\ \A p \in Procs :
       Suspends(p) /\ req'[p].op \in {"create", "update"}
       => /\ req'[p].body.cron_pattern \notin BadPatterns
          /\ req'[p].next_execution > clock
          /\ Matches(req'[p].body.cron_pattern, req'[p].next_execution)
  /\ (/\ answered'.op \in {"create", "update"}
      /\ ReachesValidation(answered')
      /\ answered'.body.cron_pattern \in BadPatterns)
     => /\ answered'.kind = "bad_request"
        /\ answered'.data = {}
        /\ fcm_schedule' = fcm_schedule
  /\ (/\ answered'.op \in {"create", "update"}
      /\ ReachesValidation(answered')
      /\ answered'.body.payload.tag = "Object")
     => answered'.body.cron_pattern \in BadPatterns
C11_UpdateReturnsOwnWrite ==
  \A p \in Procs :
    req[p].op = "update" /\ req[p].pc = "done" /\ req[p].kind = "ok"
    => /\ req[p].data # {}
       /\ \A r \in req[p].data : r.id = req[p].id /\ Wrote(r, req[p])

\* What C12 asks of every step.
C12_Step ==
  \A p \in Procs :
    (/\ req[p].op = "delete" /\ req[p].pc = "exec"
     /\ req'[p].pc = "done" /\ req'[p].kind = "ok")
    => /\ req'[p].data =
            SelectByIdAndUser(fcm_schedule, req[p].id, req[p].fb_user_id)
       /\ req'[p].data # {}
       /\ SelectById(fcm_schedule', req[p].id) = {}
\* C12: a delete answered ok carries the row exactly as it stood in the table
\* when the DELETE statement removed it, also when an update of the id
\* committed between the delete's lookup and its DELETE.
C12_DeleteReturnsRemovedRow == [][C12_Step]_vars

Failures == {"unauthorized", "bad_request", "not_found", "internal_server_error"}

\* The handler in slot p has executed a statement that wrote: it is past its
\* INSERT, or past an UPDATE that affected a row (only then does it go on to
\* read the row back).
HasWritten(p) == req[p].op \in {"create", "update"} /\ req[p].pc = "readback"

\* What C13 asks of every step.
C13_Step ==
  /\ answered'.kind \in Failures => fcm_schedule' = fcm_schedule
  /\ \A p \in Procs :
       (/\ req[p].pc \notin {"idle", "done"}
        /\ req'[p].pc = "done" /\ req'[p].kind \in Failures)
       => /\ fcm_schedule' = fcm_schedule
          /\ ~HasWritten(p)
\* C13: an invocation that is answered unauthorized, bad-request, not-found or
\* internal-error has written nothing: neither the step that answers nor any
\* earlier step of the same invocation changed the table, the read-after-write
\* step of create and update included.
C13_FailureMeansNoWrite == [][C13_Step]_vars

\* What C14 asks of every step.
C14_Step ==
  /\ \A p \in Procs :
       (/\ req[p].op \in {"create", "update"} /\ req[p].pc = "readback"
        /\ req'[p].pc = "done"
        /\ SelectById(fcm_schedule, req[p].id) = {})
       => /\ req'[p].kind = "internal_server_error"
          /\ req'[p].data = {}
  /\ \A p \in Procs :
       (/\ req[p].op = "update" /\ req[p].pc \notin {"idle", "done"}
        /\ req'[p].pc = "done" /\ req'[p].kind = "not_found")
       => /\ req[p].pc = "exec"
          /\ SelectByIdAndUser(fcm_schedule, req[p].id, req[p].fb_user_id) = {}
  /\ (answered'.op = "update" /\ answered'.kind = "not_found")
     => /\ Caller(answered'.header).ok
        /\ SelectByIdAndUser(fcm_schedule, answered'.id,
                             Caller(answered'.header).user_id) = {}
\* C14: an update whose UPDATE affected a row and whose row is deleted before
\* the re-read is answered internal-error, not not-found, and so is a create
\* whose inserted row is gone at the read-back; an update is answered
\* not-found only by its lookup or by an UPDATE that affected no row.
C14_ReadBackFailureIsInternal == [][C14_Step]_vars

C14_Witness ==
  \E p, q \in Procs :
    /\ req[p].op = "update" /\ req[p].pc = "done"
    /\ req[p].kind = "internal_server_error"
    /\ req[q].op = "delete" /\ req[q].pc = "done" /\ req[q].kind = "ok"
    /\ req[q].id = req[p].id
    /\ \E r \in req[q].data : Wrote(r, req[p])

\* C15: every row's next_execution is strictly after the time the same create
\* or update stamped on it (updated_at; a create stamps created_at and
\* last_execution with it too), the clock being free to advance between the
\* decoding and the reading of the current time.
C15_NextAfterStamp ==
  \A r \in fcm_schedule : r.next_execution > r.updated_at

\* What C16 asks of every step.
C16_Step ==
  /\ \A r \in fcm_schedule' : r.updated_at >= r.created_at
  /\ \A r \in fcm_schedule, r2 \in fcm_schedule' :
       r.id = r2.id => r2.updated_at >= r.updated_at
\* C16: a row's updated_at is never earlier than its created_at, and no UPDATE
\* that commits leaves it earlier than it was, whatever the order in which
\* concurrent updates read the clock and commit.
C16_UpdatedAtMonotone == [][C16_Step]_vars

\* The decoder accepts the pattern, whenever it is asked.
Decodes(c) == \A now \in 0..MaxTime : decode_cron(c, now).ok

\* What C17 asks of every step.
C17_Step ==
  /\ \A r \in fcm_schedule' : Decodes(r.cron_pattern)
  /\ \A r2 \in fcm_schedule' :
       (\A r \in fcm_schedule : r.id = r2.id => r.cron_pattern # r2.cron_pattern)
       => \E p \in Procs :
            /\ \/ req[p].op = "create" /\ req[p].pc = "insert"
               \/ req[p].op = "update" /\ req[p].pc = "exec" /\ req[p].id = r2.id
            /\ req'[p].pc # req[p].pc
            /\ req[p].body.cron_pattern = r2.cron_pattern
            /\ Decodes(req[p].body.cron_pattern)
\* C17: every row's cron_pattern is one decode_cron accepts; a pattern gets
\* into a row only by the INSERT of a create or the UPDATE of an update whose
\* own body carries that pattern and got past the decoding.
C17_StoredPatternDecodes == [][C17_Step]_vars

C17_Witness ==
  \E p, q \in Procs :
    /\ req[p].op = "create" /\ req[p].pc = "done" /\ req[p].kind = "created"
    /\ req[q].op = "update" /\ req[q].pc = "done" /\ req[q].kind = "ok"
    /\ req[q].id = req[p].id
    /\ req[q].body.cron_pattern # req[p].body.cron_pattern
    /\ \E r \in fcm_schedule :
         r.id = req[p].id /\ r.cron_pattern = req[q].body.cron_pattern

============================================================================
